---------------------------- MODULE Spec2Model ----------------------------
(***************************************************************************)
(* A model of the CHIP-8 interpreter of src/main.go.                       *)
(*                                                                         *)
(* The machine (type Chip8) is the record c; every method of Chip8 is an   *)
(* operator from a Chip8 record to a Chip8 record, written line by line    *)
(* from its Go body.  A Go run-time panic (index or slice bounds out of    *)
(* range) is the value Panic.  The run loop of run() is the variable at    *)
(* (the position in the loop) and cycle (the counter i of ExecuteCPU).     *)
(*                                                                         *)
(* uint8 and uint16 arithmetic wraps: U8 and U16 are applied wherever the  *)
(* Go expression has that type.                                            *)
(*                                                                         *)
(* The two large arrays are held by their non-zero elements: MainMemory    *)
(* ([0xFFF]byte) is the function from the addresses of its non-zero bytes  *)
(* to those bytes, ScreenState ([32][64]uint8, whose elements are 0 or 1)  *)
(* is the set of the cells <<y, x>> that hold 1.  Byte and Pixel read an   *)
(* element, Store and Toggle write one; an index is checked against the    *)
(* array's length (InRange) where the Go code indexes.                     *)
(***************************************************************************)
EXTENDS Integers, Sequences, FiniteSets, TLC

VARIABLES
    c,          \* the Chip8 struct (main.go:34-70)
    romFile,    \* the bytes of the program image read by LoadRomFile
    at,         \* position of run(): "load", "loop", "cpu", "timers",
                \*   "draw", "input", "wait", "exited"
    cycle,      \* loop counter i of ExecuteCPU
    panicked,   \* the process has died of a run-time panic
    hist,       \* history: the last completed CPU cycle (its word, the machine
                \*   before it, the word of the cycle before it)
    pushed,     \* history: the return addresses the CALLs that were carried out
                \*   pushed and no RET has popped yet
    called      \* history: the CALLs executed with fewer than 16 slots in use
                \*   and not yet met by their RET

vars == <<c, romFile, at, cycle, panicked, hist, pushed, called>>

(***************************************************************************)
(* Program constants.                                                      *)
(***************************************************************************)
RamGameStart == \h200
MemSize == \hFFF
NumRegs == 16
StackSize == 16
NumKeypad == 16
ScreenWidth == 64
ScreenHeight == 32
CyclesToExecute == 10

(***************************************************************************)
(* Fixed-width integers and the bit operators of Go.                       *)
(***************************************************************************)
U8(n) == n % 256
U16(n) == n % 65536

RECURSIVE BitAnd(_, _)
BitAnd(a, b) ==
    IF a = 0 \/ b = 0 THEN 0
    ELSE (a % 2) * (b % 2) + 2 * BitAnd(a \div 2, b \div 2)

RECURSIVE BitOr(_, _)
BitOr(a, b) ==
    IF a = 0 THEN b
    ELSE IF b = 0 THEN a
    ELSE (IF a % 2 = 1 \/ b % 2 = 1 THEN 1 ELSE 0) + 2 * BitOr(a \div 2, b \div 2)

RECURSIVE BitXor(_, _)
BitXor(a, b) ==
    IF a = 0 THEN b
    ELSE IF b = 0 THEN a
    ELSE ((a + b) % 2) + 2 * BitXor(a \div 2, b \div 2)

Shr(a, n) == a \div (2 ^ n)
Shl8(a, n) == U8(a * (2 ^ n))
Shl16(a, n) == U16(a * (2 ^ n))

(***************************************************************************)
(* The opcode variants (type Opcode, iota from 0).                         *)
(***************************************************************************)
opcode00E0 == 0
opcode00EE == 1
opcode1NNN == 2
opcode2NNN == 3
opcode3XNN == 4
opcode4XNN == 5
opcode5XY0 == 6
opcode6XNN == 7
opcode7XNN == 8
opcode8XY0 == 9
opcode8XY1 == 10
opcode8XY2 == 11
opcode8XY3 == 12
opcode8XY4 == 13
opcode8XY5 == 14
opcode8XY6 == 15
opcode8XY7 == 16
opcode8XYE == 17
opcode9XY0 == 18
opcodeANNN == 19
opcodeBNNN == 20
opcodeCXNN == 21
opcodeDXYN == 22
opcodeEX9E == 23
opcodeEXA1 == 24
opcodeFX07 == 25
opcodeFX0A == 26
opcodeFX15 == 27
opcodeFX18 == 28
opcodeFX1E == 29
opcodeFX29 == 30
opcodeFX33 == 31
opcodeFX55 == 32
opcodeFX65 == 33

(***************************************************************************)
(* Run-time panics.  An index expression a[k] of an array of length n      *)
(* panics unless 0 <= k < n.                                               *)
(***************************************************************************)
Panic == [panic |-> "runtime error"]
IsPanic(r) == "panic" \in DOMAIN r
InRange(k, n) == 0 <= k /\ k < n

(***************************************************************************)
(* Reading and writing the arrays.                                         *)
(***************************************************************************)
\* mem[a]
Byte(mem, a) == IF a \in DOMAIN mem THEN mem[a] ELSE 0

\* mem[a] = v
Store(mem, a, v) ==
    [k \in (IF v = 0 THEN DOMAIN mem \ {a} ELSE DOMAIN mem \cup {a}) |->
        IF k = a THEN v ELSE mem[k]]

\* screen[y][x]
Pixel(screen, y, x) == IF <<y, x>> \in screen THEN 1 ELSE 0

\* screen[y][x] ^= 1
Toggle(screen, y, x) ==
    IF <<y, x>> \in screen THEN screen \ {<<y, x>>} ELSE screen \cup {<<y, x>>}

(***************************************************************************)
(* The built-in font.  defaultSprites is declared outside src/: 16 glyphs  *)
(* of 5 bytes, glyph k at 5*k; the bitmaps are the usual hexadecimal font. *)
(***************************************************************************)
defaultSprites ==
    << 240, 144, 144, 144, 240,    32,  96,  32,  32, 112,
       240,  16, 240, 128, 240,   240,  16, 240,  16, 240,
       144, 144, 240,  16,  16,   240, 128, 240,  16, 240,
       240, 128, 240, 144, 240,   240,  16,  32,  64,  64,
       240, 144, 240, 144, 240,   240, 144, 240,  16, 240,
       240, 144, 240, 144, 144,   224, 144, 224, 144, 224,
       240, 128, 128, 128, 240,   224, 144, 144, 144, 224,
       240, 128, 240, 128, 240,   240, 128, 240, 128, 128 >>

(***************************************************************************)
(* Construction and loading.                                               *)
(***************************************************************************)
\* The zero value of the struct, as NewChip8 returns it.
NewChip8 ==
    [ MainMemory      |-> [a \in {} |-> 0],
      Vx              |-> [r \in 0 .. NumRegs - 1 |-> 0],
      I               |-> 0,
      DT              |-> 0,
      ST              |-> 0,
      PC              |-> 0,
      SP              |-> 0,
      Stack           |-> [s \in 0 .. StackSize - 1 |-> 0],
      ScreenState     |-> {},
      IsStopped       |-> FALSE,
      KeyPressed      |-> [k \in 0 .. NumKeypad - 1 |-> FALSE],
      KeyJustReleased |-> [k \in 0 .. NumKeypad - 1 |-> FALSE] ]

\* Go's copy(mem[lo:hi], src): min(hi - lo, len(src)) bytes.
copy(mem, lo, hi, src) ==
    LET written == { a \in lo .. hi - 1 : a - lo < Len(src) } IN
    [a \in (DOMAIN mem \ written) \cup { w \in written : src[w - lo + 1] # 0 } |->
        IF a \in written THEN src[a - lo + 1] ELSE mem[a]]

LoadDefaultSprites(m) ==
    [m EXCEPT !.MainMemory = copy(m.MainMemory, 0, RamGameStart, defaultSprites)]

PositionProgramCounter(m, pos) == [m EXCEPT !.PC = U16(pos)]

\* The slice expression MainMemory[lo:hi] panics unless lo <= hi <= 0xFFF.
LoadRomFile(m, f) ==
    LET hi == U16(RamGameStart + U16(Len(f))) IN
    IF ~(RamGameStart <= hi /\ hi <= MemSize) THEN Panic
    ELSE PositionProgramCounter(
            [m EXCEPT !.MainMemory = copy(m.MainMemory, RamGameStart, hi, f)],
            RamGameStart)

(***************************************************************************)
(* Fetch and decode.                                                       *)
(***************************************************************************)
\* The word read, and the machine after the deferred PC += 2.
fetch(m) ==
    IF ~(InRange(m.PC, MemSize) /\ InRange(U16(m.PC + 1), MemSize)) THEN Panic
    ELSE [ opcode |-> BitOr(Shl16(Byte(m.MainMemory, m.PC), 8),
                            Byte(m.MainMemory, U16(m.PC + 1))),
           c      |-> [m EXCEPT !.PC = U16(m.PC + 2)] ]

decode(opcode) ==
    LET top == BitAnd(opcode, \hF000)
        lowByte == BitAnd(opcode, \h00FF)
        lowNib == BitAnd(opcode, \h000F)
    IN
    CASE top = \h0000 /\ lowByte = \h00E0 -> opcode00E0
      [] top = \h0000 /\ lowByte = \h00EE -> opcode00EE
      [] top = \h1000 -> opcode1NNN
      [] top = \h2000 -> opcode2NNN
      [] top = \h3000 -> opcode3XNN
      [] top = \h4000 -> opcode4XNN
      [] top = \h5000 -> opcode5XY0
      [] top = \h6000 -> opcode6XNN
      [] top = \h7000 -> opcode7XNN
      [] top = \h8000 /\ lowNib = \h0000 -> opcode8XY0
      [] top = \h8000 /\ lowNib = \h0001 -> opcode8XY1
      [] top = \h8000 /\ lowNib = \h0002 -> opcode8XY2
      [] top = \h8000 /\ lowNib = \h0003 -> opcode8XY3
      [] top = \h8000 /\ lowNib = \h0004 -> opcode8XY4
      [] top = \h8000 /\ lowNib = \h0005 -> opcode8XY5
      [] top = \h8000 /\ lowNib = \h0006 -> opcode8XY6
      [] top = \h8000 /\ lowNib = \h0007 -> opcode8XY7
      [] top = \h8000 /\ lowNib = \h000E -> opcode8XYE
      [] top = \h9000 -> opcode9XY0
      [] top = \hA000 -> opcodeANNN
      [] top = \hB000 -> opcodeBNNN
      [] top = \hC000 -> opcodeCXNN
      [] top = \hD000 -> opcodeDXYN
      [] top = \hE000 /\ lowNib = \h000E -> opcodeEX9E
      [] top = \hE000 /\ lowNib = \h0001 -> opcodeEXA1
      [] top = \hF000 /\ lowByte = \h0007 -> opcodeFX07
      [] top = \hF000 /\ lowByte = \h000A -> opcodeFX0A
      [] top = \hF000 /\ lowByte = \h0015 -> opcodeFX15
      [] top = \hF000 /\ lowByte = \h0018 -> opcodeFX18
      [] top = \hF000 /\ lowByte = \h001E -> opcodeFX1E
      [] top = \hF000 /\ lowByte = \h0029 -> opcodeFX29
      [] top = \hF000 /\ lowByte = \h0033 -> opcodeFX33
      [] top = \hF000 /\ lowByte = \h0055 -> opcodeFX55
      [] top = \hF000 /\ lowByte = \h0065 -> opcodeFX65
      [] OTHER -> opcode00E0     \* the final "return opcode00E0"

\* The register-index and literal fields, as every handler extracts them.
X(opcode) == Shr(BitAnd(opcode, \h0F00), 8)
Y(opcode) == Shr(BitAnd(opcode, \h00F0), 4)
N(opcode) == BitAnd(opcode, \h000F)
NN(opcode) == U8(BitAnd(opcode, \h00FF))
NNN(opcode) == BitAnd(opcode, \h0FFF)

(***************************************************************************)
(* The executor: one operator per handler method.                          *)
(***************************************************************************)
VF == \hF

clearScreen(m) == [m EXCEPT !.ScreenState = {}]

exitSubroutine(m) ==
    IF m.SP <= 0 THEN m
    ELSE IF ~InRange(m.SP - 1, StackSize) THEN Panic
    ELSE [m EXCEPT !.PC = m.Stack[m.SP - 1], !.SP = U8(m.SP - 1)]

JumpToAddr(m, opcode) == [m EXCEPT !.PC = NNN(opcode)]

\* Mutant of callSubroutine: the return address goes one slot too high.
callSubroutineSlotOff(m, opcode) ==
    IF m.SP >= 15 THEN m
    ELSE LET sp == U8(m.SP + 1) IN
         [m EXCEPT !.SP = sp, !.Stack[sp] = m.PC, !.PC = NNN(opcode)]

callSubroutine(m, opcode) ==
    IF m.SP >= 15 THEN m
    ELSE LET sp == U8(m.SP + 1) IN
         IF ~InRange(sp - 1, StackSize) THEN Panic
         ELSE [m EXCEPT !.SP = sp, !.Stack[sp - 1] = m.PC, !.PC = NNN(opcode)]

checkVxEqlNN(m, opcode) ==
    IF m.Vx[X(opcode)] = NN(opcode) THEN [m EXCEPT !.PC = U16(m.PC + 2)] ELSE m

checkVxNotEqlNN(m, opcode) ==
    IF m.Vx[X(opcode)] # NN(opcode) THEN [m EXCEPT !.PC = U16(m.PC + 2)] ELSE m

checkVxEqlVy(m, opcode) ==
    IF m.Vx[X(opcode)] = m.Vx[Y(opcode)] THEN [m EXCEPT !.PC = U16(m.PC + 2)] ELSE m

setVxToNN(m, opcode) == [m EXCEPT !.Vx[X(opcode)] = NN(opcode)]

addAssignToVx(m, opcode) ==
    [m EXCEPT !.Vx[X(opcode)] = U8(m.Vx[X(opcode)] + NN(opcode))]

setVxToVy(m, opcode) == [m EXCEPT !.Vx[X(opcode)] = m.Vx[Y(opcode)]]

bitwiseORAssignVxToVy(m, opcode) ==
    [m EXCEPT !.Vx[X(opcode)] = BitOr(m.Vx[X(opcode)], m.Vx[Y(opcode)])]

bitwiseANDAssignVxToVy(m, opcode) ==
    [m EXCEPT !.Vx[X(opcode)] = BitAnd(m.Vx[X(opcode)], m.Vx[Y(opcode)])]

bitwiseXORAssignVxToVy(m, opcode) ==
    [m EXCEPT !.Vx[X(opcode)] = BitXor(m.Vx[X(opcode)], m.Vx[Y(opcode)])]

\* The flag is written first; the sum then reads the registers as they are.
addAssignVyToVx(m, opcode) ==
    LET m1 == IF m.Vx[Y(opcode)] > \hFF - m.Vx[X(opcode)]
              THEN [m EXCEPT !.Vx[VF] = 1]
              ELSE [m EXCEPT !.Vx[VF] = 0]
    IN [m1 EXCEPT !.Vx[X(opcode)] = U8(m1.Vx[X(opcode)] + m1.Vx[Y(opcode)])]

subAssignVyToVx(m, opcode) ==
    LET m1 == IF m.Vx[Y(opcode)] > m.Vx[X(opcode)]
              THEN [m EXCEPT !.Vx[VF] = 0]
              ELSE [m EXCEPT !.Vx[VF] = 1]
    IN [m1 EXCEPT !.Vx[X(opcode)] = U8(m1.Vx[X(opcode)] - m1.Vx[Y(opcode)])]

rightShiftVxBy1(m, opcode) ==
    LET m1 == [m EXCEPT !.Vx[VF] = BitAnd(m.Vx[X(opcode)], 1)]
    IN [m1 EXCEPT !.Vx[X(opcode)] = Shr(m1.Vx[X(opcode)], 1)]

setVxToVySubVx(m, opcode) ==
    LET m1 == IF m.Vx[X(opcode)] > m.Vx[Y(opcode)]
              THEN [m EXCEPT !.Vx[VF] = 0]
              ELSE [m EXCEPT !.Vx[VF] = 1]
    IN [m1 EXCEPT !.Vx[X(opcode)] = U8(m1.Vx[Y(opcode)] - m1.Vx[X(opcode)])]

leftShiftVxBy1(m, opcode) ==
    LET m1 == [m EXCEPT !.Vx[VF] = Shr(m.Vx[X(opcode)], 7)]
    IN [m1 EXCEPT !.Vx[X(opcode)] = Shl8(m1.Vx[X(opcode)], 1)]

checkVxNotEqlVy(m, opcode) ==
    IF m.Vx[X(opcode)] # m.Vx[Y(opcode)] THEN [m EXCEPT !.PC = U16(m.PC + 2)] ELSE m

setIReg(m, opcode) == [m EXCEPT !.I = NNN(opcode)]

pcJump(m, opcode) == [m EXCEPT !.PC = U16(m.Vx[0] + NNN(opcode))]

\* rnd is the value of rand.Intn(256).
setVxToRand(m, opcode, rnd) ==
    [m EXCEPT !.Vx[X(opcode)] = BitAnd(U8(rnd), NN(opcode))]

\* Mutant of drawCols: the pixel is set (|= 1), not toggled.
RECURSIVE drawColsSet(_, _, _, _, _)
drawColsSet(m, pixel, x, row, i) ==
    IF ~(i < 8) THEN m
    ELSE IF U8(x + U8(i)) >= ScreenWidth THEN drawColsSet(m, pixel, x, row, i + 1)
    ELSE IF BitAnd(pixel, Shr(\h80, i)) # 0
         THEN LET col == U8(x + U8(i))
                  m1 == IF Pixel(m.ScreenState, row, col) = 1
                        THEN [m EXCEPT !.Vx[VF] = 1]
                        ELSE m
              IN drawColsSet([m1 EXCEPT !.ScreenState = @ \cup {<<row, col>>}],
                             pixel, x, row, i + 1)
         ELSE drawColsSet(m, pixel, x, row, i + 1)

\* Mutant of drawCols: a bit past the right edge wraps to the left edge.
RECURSIVE drawColsWrap(_, _, _, _, _)
drawColsWrap(m, pixel, x, row, i) ==
    IF ~(i < 8) THEN m
    ELSE IF BitAnd(pixel, Shr(\h80, i)) # 0
         THEN LET col == U8(x + U8(i)) % ScreenWidth
                  m1 == IF Pixel(m.ScreenState, row, col) = 1
                        THEN [m EXCEPT !.Vx[VF] = 1]
                        ELSE m
              IN drawColsWrap([m1 EXCEPT !.ScreenState = Toggle(@, row, col)],
                              pixel, x, row, i + 1)
         ELSE drawColsWrap(m, pixel, x, row, i + 1)

\* The inner loop of drawSprite, from column i, on the screen row `row`.
RECURSIVE drawCols(_, _, _, _, _)
drawCols(m, pixel, x, row, i) ==
    IF ~(i < 8) THEN m
    ELSE IF U8(x + U8(i)) >= ScreenWidth THEN drawCols(m, pixel, x, row, i + 1)
    ELSE IF BitAnd(pixel, Shr(\h80, i)) # 0
         THEN LET col == U8(x + U8(i))
                  m1 == IF Pixel(m.ScreenState, row, col) = 1
                        THEN [m EXCEPT !.Vx[VF] = 1]
                        ELSE m
              IN drawCols([m1 EXCEPT !.ScreenState = Toggle(@, row, col)],
                          pixel, x, row, i + 1)
         ELSE drawCols(m, pixel, x, row, i + 1)

\* The outer loop of drawSprite, from sprite row j.
RECURSIVE drawRows(_, _, _, _, _)
drawRows(m, x, y, h, j) ==
    IF ~(j < h) THEN m
    ELSE IF ~InRange(U16(m.I + j), MemSize) THEN Panic
    ELSE LET pixel == Byte(m.MainMemory, U16(m.I + j)) IN
         IF U8(y + U8(j)) >= ScreenHeight THEN drawRows(m, x, y, h, j + 1)
         ELSE drawRows(drawCols(m, pixel, x, U8(y + U8(j)), 0), x, y, h, j + 1)

drawSprite(m, opcode) ==
    LET x == m.Vx[X(opcode)] % 64
        y == m.Vx[Y(opcode)] % 32
        h == N(opcode)
    IN drawRows([m EXCEPT !.Vx[VF] = 0], x, y, h, 0)

\* Mutant of keyOpEqlCheck: a key found held is taken off the key vector.
keyOpEqlCheckConsumes(m, opcode) ==
    IF ~InRange(m.Vx[X(opcode)], NumKeypad) THEN Panic
    ELSE IF m.KeyPressed[m.Vx[X(opcode)]]
         THEN [m EXCEPT !.PC = U16(m.PC + 2), !.KeyPressed[m.Vx[X(opcode)]] = FALSE]
    ELSE m

keyOpEqlCheck(m, opcode) ==
    IF ~InRange(m.Vx[X(opcode)], NumKeypad) THEN Panic
    ELSE IF m.KeyPressed[m.Vx[X(opcode)]] THEN [m EXCEPT !.PC = U16(m.PC + 2)]
    ELSE m

keyOpNotEqlCheck(m, opcode) ==
    IF ~InRange(m.Vx[X(opcode)], NumKeypad) THEN Panic
    ELSE IF ~m.KeyPressed[m.Vx[X(opcode)]] THEN [m EXCEPT !.PC = U16(m.PC + 2)]
    ELSE m

setVxToDelayTimer(m, opcode) == [m EXCEPT !.Vx[X(opcode)] = m.DT]

emptyBoolSlice == [k \in 0 .. NumKeypad - 1 |-> FALSE]

\* The loop of setVxToKeyPress, from key k.
RECURSIVE keyLoop(_, _, _)
keyLoop(m, opcode, k) ==
    IF ~(k < NumKeypad) THEN m
    ELSE IF m.KeyJustReleased[k]
         THEN keyLoop([m EXCEPT !.Vx[X(opcode)] = U8(k)], opcode, k + 1)
         ELSE keyLoop(m, opcode, k + 1)

\* Mutant of setVxToKeyPress: PC is not taken back while no key is released.
setVxToKeyPressNoRewind(m, opcode) ==
    IF m.KeyJustReleased = emptyBoolSlice THEN m
    ELSE keyLoop(m, opcode, 0)

setVxToKeyPress(m, opcode) ==
    IF m.KeyJustReleased = emptyBoolSlice THEN [m EXCEPT !.PC = U16(m.PC - 2)]
    ELSE keyLoop(m, opcode, 0)

setDelayTimerToVx(m, opcode) == [m EXCEPT !.DT = m.Vx[X(opcode)]]

setSoundTimerToVx(m, opcode) == [m EXCEPT !.ST = m.Vx[X(opcode)]]

addAssignVxToI(m, opcode) ==
    LET m1 == IF U16(m.I + m.Vx[X(opcode)]) > \hFFF
              THEN [m EXCEPT !.Vx[VF] = 1]
              ELSE [m EXCEPT !.Vx[VF] = 0]
    IN [m1 EXCEPT !.I = U16(m1.I + m1.Vx[X(opcode)])]

\* defaultSprite0Loc .. defaultSpriteFLoc are declared outside src/: glyph k at 5*k.
defaultSpriteLoc(k) == 5 * k

\* The switch is on the register index of the word, not on the register's value.
setIToSpriteAddrVx(m, opcode) ==
    [m EXCEPT !.I = defaultSpriteLoc(BitAnd(Shr(opcode, 8), \h0F))]

storeBCDToI(m, opcode) ==
    LET val == m.Vx[X(opcode)] IN
    IF ~(InRange(m.I, MemSize) /\ InRange(U16(m.I + 1), MemSize)
            /\ InRange(U16(m.I + 2), MemSize)) THEN Panic
    ELSE [m EXCEPT !.MainMemory =
            Store(Store(Store(@, m.I, val \div 100),
                        U16(m.I + 1), (val \div 10) % 10),
                  U16(m.I + 2), val % 10)]

\* The loop of regDump, from register k with regICopy = addr.
RECURSIVE dumpLoop(_, _, _, _)
dumpLoop(m, lastVxReg, k, addr) ==
    IF ~(k <= lastVxReg) THEN m
    ELSE IF ~InRange(addr, MemSize) THEN Panic
    ELSE dumpLoop([m EXCEPT !.MainMemory = Store(@, addr, m.Vx[k])],
                  lastVxReg, k + 1, U16(addr + 1))

\* Mutant of regDump: I is left behind the last cell written.
regDumpMovesI(m, opcode) ==
    LET r == dumpLoop(m, X(opcode), 0, m.I) IN
    IF IsPanic(r) THEN r ELSE [r EXCEPT !.I = U16(m.I + X(opcode) + 1)]

regDump(m, opcode) == dumpLoop(m, X(opcode), 0, m.I)

\* The loop of regLoad, from register k with regICopy = addr.
RECURSIVE loadLoop(_, _, _, _)
loadLoop(m, lastVxReg, k, addr) ==
    IF ~(k <= lastVxReg) THEN m
    ELSE IF ~InRange(addr, MemSize) THEN Panic
    ELSE loadLoop([m EXCEPT !.Vx[k] = Byte(m.MainMemory, addr)],
                  lastVxReg, k + 1, U16(addr + 1))

regLoad(m, opcode) == loadLoop(m, X(opcode), 0, m.I)

execute(ins, opcode, m, rnd) ==
    CASE ins = opcode00E0 -> clearScreen(m)
      [] ins = opcode00EE -> exitSubroutine(m)
      [] ins = opcode1NNN -> JumpToAddr(m, opcode)
      [] ins = opcode2NNN -> callSubroutine(m, opcode)
      [] ins = opcode3XNN -> checkVxEqlNN(m, opcode)
      [] ins = opcode4XNN -> checkVxNotEqlNN(m, opcode)
      [] ins = opcode5XY0 -> checkVxEqlVy(m, opcode)
      [] ins = opcode6XNN -> setVxToNN(m, opcode)
      [] ins = opcode7XNN -> addAssignToVx(m, opcode)
      [] ins = opcode8XY0 -> setVxToVy(m, opcode)
      [] ins = opcode8XY1 -> bitwiseORAssignVxToVy(m, opcode)
      [] ins = opcode8XY2 -> bitwiseANDAssignVxToVy(m, opcode)
      [] ins = opcode8XY3 -> bitwiseXORAssignVxToVy(m, opcode)
      [] ins = opcode8XY4 -> addAssignVyToVx(m, opcode)
      [] ins = opcode8XY5 -> subAssignVyToVx(m, opcode)
      [] ins = opcode8XY6 -> rightShiftVxBy1(m, opcode)
      [] ins = opcode8XY7 -> setVxToVySubVx(m, opcode)
      [] ins = opcode8XYE -> leftShiftVxBy1(m, opcode)
      [] ins = opcode9XY0 -> checkVxNotEqlVy(m, opcode)
      [] ins = opcodeANNN -> setIReg(m, opcode)
      [] ins = opcodeBNNN -> pcJump(m, opcode)
      [] ins = opcodeCXNN -> setVxToRand(m, opcode, rnd)
      [] ins = opcodeDXYN -> drawSprite(m, opcode)
      [] ins = opcodeEX9E -> keyOpEqlCheck(m, opcode)
      [] ins = opcodeEXA1 -> keyOpNotEqlCheck(m, opcode)
      [] ins = opcodeFX07 -> setVxToDelayTimer(m, opcode)
      [] ins = opcodeFX0A -> setVxToKeyPress(m, opcode)
      [] ins = opcodeFX15 -> setDelayTimerToVx(m, opcode)
      [] ins = opcodeFX18 -> setSoundTimerToVx(m, opcode)
      [] ins = opcodeFX1E -> addAssignVxToI(m, opcode)
      [] ins = opcodeFX29 -> setIToSpriteAddrVx(m, opcode)
      [] ins = opcodeFX33 -> storeBCDToI(m, opcode)
      [] ins = opcodeFX55 -> regDump(m, opcode)
      [] ins = opcodeFX65 -> regLoad(m, opcode)

(***************************************************************************)
(* The scheduler's steps.                                                  *)
(***************************************************************************)
\* Mutant of DecrementTimers: the counters are decremented unguarded.
DecrementTimersWrap(m) ==
    [m EXCEPT !.DT = U8(m.DT - 1), !.ST = U8(m.ST - 1)]

DecrementTimers(m) ==
    LET m1 == IF m.DT > 0 THEN [m EXCEPT !.DT = U8(m.DT - 1)] ELSE m
    IN IF m1.ST > 0 THEN [m1 EXCEPT !.ST = U8(m1.ST - 1)] ELSE m1

keyMap ==
    [ Key1 |-> \h1, Key2 |-> \h2, Key3 |-> \h3, Key4 |-> \hC,
      KeyQ |-> \h4, KeyW |-> \h5, KeyE |-> \h6, KeyR |-> \hD,
      KeyA |-> \h7, KeyS |-> \h8, KeyD |-> \h9, KeyF |-> \hE,
      KeyZ |-> \hA, KeyX |-> \h0, KeyC |-> \hB, KeyV |-> \hF,
      KeyUp |-> \h2, KeyLeft |-> \h4, KeyRight |-> \h6, KeyDown |-> \h8 ]

\* escape: Pressed(KeyEscape); pressed, released: the buttons for which the
\* window answers Pressed and JustReleased.
handleInput(m, escape, pressed, released) ==
    LET m1 == [m EXCEPT !.KeyPressed = [k \in 0 .. NumKeypad - 1 |-> FALSE],
                        !.KeyJustReleased = [k \in 0 .. NumKeypad - 1 |-> FALSE]]
    IN IF escape THEN [m1 EXCEPT !.IsStopped = TRUE]
       ELSE [m1 EXCEPT
               !.KeyPressed = [k \in 0 .. NumKeypad - 1 |->
                   \E key \in DOMAIN keyMap : key \in pressed /\ keyMap[key] = k],
               !.KeyJustReleased = [k \in 0 .. NumKeypad - 1 |->
                   \E key \in DOMAIN keyMap : key \in released /\ keyMap[key] = k]]

(***************************************************************************)
(* Bounds and inputs: the buttons the user operates, the values the random *)
(* source returns, the program images.                                     *)
(***************************************************************************)
NumKeys == 2
MaxRand == 2

KeyOrder == << "KeyV", "KeyUp", "Key2", "KeyX" >>
OperatedKeys == { KeyOrder[k] : k \in 1 .. NumKeys }

\* rand.Intn(256) returns 0..255; the values tried are those next to both ends.
RandVals == (0 .. MaxRand - 1) \cup (256 - MaxRand .. 255)

\* Instruction words, by the rows of decode.
CLS == \h00E0
RET == \h00EE
JP(addr) == \h1000 + addr
CALL(addr) == \h2000 + addr
SEb(x, nn) == \h3000 + x * 256 + nn
SNEb(x, nn) == \h4000 + x * 256 + nn
SE(x, y) == \h5000 + x * 256 + y * 16
LD(x, nn) == \h6000 + x * 256 + nn
ADDb(x, nn) == \h7000 + x * 256 + nn
ALU(x, y, n) == \h8000 + x * 256 + y * 16 + n
SNE(x, y) == \h9000 + x * 256 + y * 16
LDI(addr) == \hA000 + addr
JPV0(addr) == \hB000 + addr
RND(x, nn) == \hC000 + x * 256 + nn
DRW(x, y, n) == \hD000 + x * 256 + y * 16 + n
SKP(x) == \hE09E + x * 256
SKNP(x) == \hE0A1 + x * 256
FX(x, low) == \hF000 + x * 256 + low

\* The address of the k-th word (from 0) of a loaded image.
Addr(k) == RamGameStart + 2 * k

\* A program image: its words, high byte first.
Bytes(ws) ==
    [k \in 1 .. 2 * Len(ws) |->
        IF k % 2 = 1 THEN ws[(k + 1) \div 2] \div 256 ELSE ws[k \div 2] % 256]

\* Recursion without end: 15 and more nested CALLs, then the RETs.
RomCall == << CALL(Addr(0)), RET, JP(Addr(2)) >>

\* The same, with a second CALL and a RET behind the CALL that recurses.
RomCallRet == << CALL(Addr(0)), CALL(Addr(4)), RET, JP(Addr(3)), JP(Addr(4)) >>

\* Two nested subroutines that return.
RomNest == << CALL(Addr(2)), JP(Addr(1)), CALL(Addr(4)), RET, RET >>

\* A glyph on the screen, then a word w of no row of the table.
RomWord(w) == << LD(1, 7), LDI(0), DRW(0, 0, 5), w, JP(Addr(4)) >>

\* Two random operands, one ALU instruction, then the registers are cleared.
RomAlu(x, y, n) ==
    << RND(x, \hFF), RND(y, \hFF), ALU(x, y, n),
       LD(x, 0), LD(y, 0), LD(VF, 0), JP(Addr(6)) >>

\* A one-row random sprite drawn at a random place, then drawn twice more
\* one register over, then everything is cleared.
RomDraw(n) ==
    << RND(0, \hFF), LDI(\h300), FX(0, \h55), RND(1, \hFF), DRW(1, 1, 1),
       RND(2, \hFF), DRW(2, 1, n), DRW(2, 1, n),
       CLS, LD(0, 0), FX(0, \h55), LD(1, 0), LD(2, 0), LD(VF, 0), JP(Addr(14)) >>

\* Wait for a key, twice.
RomKey(x) == << LD(x, \h33), FX(x, \h0A), FX(x, \h0A), LD(x, 0), JP(Addr(4)) >>

\* Set both timers and watch the delay timer.
RomTimer == << LD(0, 2), FX(0, \h15), LD(1, 1), FX(1, \h18), FX(2, \h07), JP(Addr(4)) >>

\* A jump to the last two addresses of the 12-bit space.
RomEnd == << JP(\hFFE) >>

\* The remaining instructions, once each.
RomTour ==
    << LD(0, 1), SEb(0, 1), JP(Addr(2)), SNEb(0, 2), JP(Addr(4)),
       SE(0, 0), JP(Addr(6)), SKP(0), SKNP(0), JP(Addr(9)),
       ADDb(0, 1), ALU(1, 0, 0), ALU(1, 0, 1), ALU(1, 0, 2), ALU(1, 0, 3),
       SNE(0, 1), JP(Addr(16)), LDI(\h300), FX(0, \h1E), FX(0, \h29),
       LDI(\h300), FX(0, \h33), FX(1, \h65), JPV0(Addr(24)), JP(Addr(24)) >>

\* Registers dumped to 0x300 and loaded back at once, then all is cleared.
RomRegs(x) ==
    << RND(0, \hFF), LD(1, \h21), LD(VF, \h0F), LDI(\h300), FX(x, \h55), FX(x, \h65),
       LD(0, 0), LD(1, 0), LD(VF, 0), FX(x, \h55), JP(Addr(10)) >>

\* The font address of the glyph for the value v held in Vx.
RomFont(x, v) == << LD(x, v), FX(x, \h29), JP(Addr(2)) >>

\* The value v of Vx added into I = i.
RomAddI(x, i, v) == << LDI(i), LD(x, v), FX(x, \h1E), JP(Addr(3)) >>

\* One instruction w that reaches the address 0xFFF through I = i.
RomTop(i, w) == << LD(0, 123), LDI(i), w, JP(Addr(3)) >>

\* The delay timer set to 3, key F polled over the ticks until it is held,
\* then the delay timer read.
RomPoll ==
    << LD(0, \hF), LD(2, 3), FX(2, \h15), SKP(0), JP(Addr(3)),
       FX(1, \h07), LD(1, 0), LD(2, 0), JP(Addr(8)) >>

\* A glyph on the screen, then a word w next to a row of the table, with a
\* landing place for a skip.
RomDecode(w) ==
    << LD(1, 7), LDI(0), DRW(0, 0, 5), LD(2, 7), w, JP(Addr(5)), JP(Addr(6)) >>

\* Glyph 0 drawn across the bottom right corner, then once more one column
\* to the right, over its own image.
RomClip ==
    << LD(0, 62), LD(1, 30), LDI(0), DRW(0, 1, 5), LD(0, 63), DRW(0, 1, 5),
       JP(Addr(6)) >>

\* I and PC taken past the 12-bit address space.
RomWide == << LD(0, \hFF), LDI(\hFFF), FX(0, \h1E), JPV0(\hFFF) >>

\* A key code above 15 in Vx, then the key instruction w.
RomKeyWide(w) == << LD(0, \h10), w, JP(Addr(2)), JP(Addr(3)) >>

Roms ==
    { RomCall, RomCallRet, RomNest, RomTimer, RomEnd, RomTour, RomPoll, RomClip,
      RomWide, RomKeyWide(SKP(0)), RomKeyWide(SKNP(0)) }
    \cup { RomDecode(w) : w \in { \h5121, \h5120, \h9013, \hE10E, \hE101, \hE19E } }
    \cup { RomTop(\hFFD, FX(0, \h33)), RomTop(\hFFF, FX(0, \h55)),
           RomTop(\hFFF, FX(0, \h65)), RomTop(\hFFF, DRW(1, 1, 1)) }
    \cup { RomFont(3, \h0A), RomFont(7, \h07), RomFont(1, \h1C) }
    \cup { RomAddI(0, \h300, 5), RomAddI(VF, \h300, 5), RomAddI(0, \hFFF, 1) }
    \cup { RomRegs(x) : x \in { 0, 1, 15 } }
    \cup { RomWord(w) : w \in { \h0000, \h8128, \hF100 } }
    \cup { RomAlu(xy[1], xy[2], n) : xy \in { <<0, 1>>, <<1, 15>>, <<15, 0>> },
                                      n \in { 4, 5, 7 } }
    \cup { RomAlu(xy[1], xy[2], n) : xy \in { <<0, 1>>, <<15, 0>> }, n \in { 6, 14 } }
    \cup { RomDraw(n) : n \in { 0, 1 } }
    \cup { RomKey(x) : x \in { 3, 15 } }

\* A program image of len bytes: a jump to itself, zeros, a last byte 0xA5.
Image(len) ==
    [k \in 1 .. len |->
        IF k = 1 THEN \h12 ELSE IF k = 2 THEN \h00 ELSE IF k = len THEN \hA5 ELSE 0]

\* Lengths of images: one that fills memory up to the last cell the array
\* has, one too long by far, one whose length does not fit uint16.
ImageLens == { 3, \hDFF, \hE01, 65538 }

Files == { Bytes(ws) : ws \in Roms } \cup { Image(len) : len \in ImageLens }

(***************************************************************************)
(* The state machine of run().                                             *)
(***************************************************************************)
Init ==
    /\ c = LoadDefaultSprites(NewChip8)
    /\ romFile \in Files
    /\ at = "load"
    /\ cycle = 0
    /\ panicked = FALSE
    /\ hist = [valid |-> FALSE, opcode |-> 0, pre |-> LoadDefaultSprites(NewChip8),
               prevOpcode |-> -1, called |-> << >>]
    /\ pushed = << >>
    /\ called = << >>

\* c.LoadRomFile(...)
Load ==
    /\ at = "load"
    /\ LET r == LoadRomFile(c, romFile) IN
         IF IsPanic(r)
         THEN /\ panicked' = TRUE
              /\ at' = "exited"
              /\ UNCHANGED c
         ELSE /\ c' = r
              /\ at' = "loop"
              /\ UNCHANGED panicked
    /\ UNCHANGED <<romFile, cycle, hist, pushed, called>>

\* for !c.Screen.Closed() && !c.IsStopped: the loop is entered
LoopEnter ==
    /\ at = "loop"
    /\ ~c.IsStopped
    /\ at' = "cpu"
    /\ cycle' = 0
    /\ UNCHANGED <<c, romFile, panicked, hist, pushed, called>>

\* the window is closed, or IsStopped is set: run() returns
LoopExit ==
    /\ at = "loop"
    /\ at' = "exited"
    /\ UNCHANGED <<c, romFile, cycle, panicked, hist, pushed, called>>

\* The history of pushed return addresses after instruction ins on machine m.
pushedAfter(ins, m, p) ==
    IF ins = opcode2NNN /\ ~(m.SP >= 15) THEN Append(p, m.PC)
    ELSE IF ins = opcode00EE /\ ~(m.SP <= 0) THEN SubSeq(p, 1, Len(p) - 1)
    ELSE p

\* The history of CALLs awaiting their RET: m is the machine the handler of
\* ins starts from (PC past the word), r the machine it leaves.  A CALL made
\* with a free slot is recorded with the address after it, SP before it and
\* SP after it; the RET executed at that depth meets it.
calledAfter(ins, m, r, q) ==
    IF ins = opcode2NNN /\ m.SP < StackSize
    THEN Append(q, [ret |-> m.PC, before |-> m.SP, depth |-> r.SP])
    ELSE IF ins = opcode00EE /\ q # << >> /\ m.SP = q[Len(q)].depth
    THEN SubSeq(q, 1, Len(q) - 1)
    ELSE q

\* One iteration of the loop of ExecuteCPU: fetch, decode, execute.
Cycle ==
    /\ at = "cpu"
    /\ LET f == fetch(c) IN
         /\ ~IsPanic(f)
         /\ LET ins == decode(f.opcode) IN
              \E rnd \in IF ins = opcodeCXNN THEN RandVals ELSE {0} :
                LET r == execute(ins, f.opcode, f.c, rnd) IN
                  IF IsPanic(r)
                  THEN /\ panicked' = TRUE
                       /\ at' = "exited"
                       /\ UNCHANGED <<c, cycle, hist, pushed, called>>
                  ELSE /\ c' = r
                       /\ hist' = [valid |-> TRUE, opcode |-> f.opcode, pre |-> c,
                                   prevOpcode |-> IF hist.valid THEN hist.opcode ELSE -1,
                                   called |-> called]
                       /\ pushed' = pushedAfter(ins, f.c, pushed)
                       /\ called' = calledAfter(ins, f.c, r, called)
                       /\ cycle' = cycle + 1
                       /\ at' = IF cycle + 1 < CyclesToExecute THEN "cpu" ELSE "timers"
                       /\ UNCHANGED panicked
    /\ UNCHANGED romFile

\* fetch indexes MainMemory out of range
FetchPanic ==
    /\ at = "cpu"
    /\ IsPanic(fetch(c))
    /\ panicked' = TRUE
    /\ at' = "exited"
    /\ UNCHANGED <<c, romFile, cycle, hist, pushed, called>>

\* c.DecrementTimers()
Timers ==
    /\ at = "timers"
    /\ c' = DecrementTimers(c)
    /\ at' = "draw"
    /\ UNCHANGED <<romFile, cycle, panicked, hist, pushed, called>>

\* c.DrawScreen(): the window shows what the handlers drew
DrawScreen ==
    /\ at = "draw"
    /\ at' = "input"
    /\ UNCHANGED <<c, romFile, cycle, panicked, hist, pushed, called>>

\* c.handleInput(), the escape key up
Input ==
    /\ at = "input"
    /\ \E pressed \in SUBSET OperatedKeys :
         \E released \in SUBSET (OperatedKeys \ pressed) :
            c' = handleInput(c, FALSE, pressed, released)
    /\ at' = "wait"
    /\ UNCHANGED <<romFile, cycle, panicked, hist, pushed, called>>

\* c.handleInput(), the escape key down
InputEscape ==
    /\ at = "input"
    /\ c' = handleInput(c, TRUE, {}, {})
    /\ at' = "wait"
    /\ UNCHANGED <<romFile, cycle, panicked, hist, pushed, called>>

\* c.Wait(cycleStartTime): the rest of the frame is slept
Wait ==
    /\ at = "wait"
    /\ at' = "loop"
    /\ UNCHANGED <<c, romFile, cycle, panicked, hist, pushed, called>>

Next ==
    \/ Load \/ LoopEnter \/ LoopExit \/ Cycle \/ FetchPanic
    \/ Timers \/ DrawScreen \/ Input \/ InputEscape \/ Wait

Spec == Init /\ [][Next]_vars

(***************************************************************************)
(* What the claims speak of.                                               *)
(***************************************************************************)
\* The step that led here was a completed CPU cycle: hist.pre is the machine
\* before it, c the machine after it.
JustExecuted == hist.valid /\ ((at = "cpu" /\ cycle > 0) \/ at = "timers")

LastIns == decode(hist.opcode)
LastX == X(hist.opcode)
LastY == Y(hist.opcode)

\* The address after the word of the last cycle.
PastWord == U16(hist.pre.PC + 2)

\* A CPU cycle is about to execute the word w.
Executing(w) == at = "cpu" /\ ~IsPanic(fetch(c)) /\ fetch(c).opcode = w

\* The rows of the opcode table of the specification (section 4.1).
InTable(w) ==
    LET top == w \div 4096
        lowByte == w % 256
        lowNib == w % 16
    IN CASE top = 0 -> lowByte \in { \hE0, \hEE }
         [] top \in { 5, 9 } -> lowNib = 0
         [] top = 8 -> lowNib \in (0 .. 7) \cup { \hE }
         [] top = \hE -> lowByte \in { \h9E, \hA1 }
         [] top = \hF -> lowByte \in { \h07, \h0A, \h15, \h18, \h1E, \h29, \h33, \h55, \h65 }
         [] OTHER -> TRUE

\* The cells <<row, column>> that DRW w toggles on machine m: bit k (from the
\* most significant) of sprite byte r, at the origin (Vx mod 64, Vy mod 32),
\* where it lies on the grid.
SpriteCells(m, w) ==
    LET ox == m.Vx[X(w)] % 64
        oy == m.Vx[Y(w)] % 32
    IN { << oy + rk[1], ox + rk[2] >> :
            rk \in { q \in (0 .. N(w) - 1) \X (0 .. 7) :
                        /\ oy + q[1] <= ScreenHeight - 1
                        /\ ox + q[2] <= ScreenWidth - 1
                        /\ (Byte(m.MainMemory, m.I + q[1]) \div (2 ^ (7 - q[2]))) % 2 = 1 } }

(***************************************************************************)
(* C1.  From an empty stack sixteen consecutive CALLs succeed (each pushes *)
(* the address after it, increments SP and sets PC to the target) and the  *)
(* seventeenth is a no-op: a CALL executed with SP < 16 succeeds, one      *)
(* executed with SP = 16 changes neither SP nor the stack and leaves PC    *)
(* after the word.  The code refuses the sixteenth CALL (SP = 15).         *)
(***************************************************************************)
C1_SixteenCallsSucceed ==
    (JustExecuted /\ LastIns = opcode2NNN) =>
        IF hist.pre.SP < StackSize
        THEN /\ c.SP = hist.pre.SP + 1
             /\ c.Stack[hist.pre.SP] = PastWord
             /\ c.PC = NNN(hist.opcode)
        ELSE /\ c.SP = hist.pre.SP
             /\ c.Stack = hist.pre.Stack
             /\ c.PC = PastWord

(***************************************************************************)
(* C2.  The RET that meets a CALL made at address A while the stack had    *)
(* room (the RET executed at the stack depth the CALL left) sets PC to     *)
(* A + 2 and SP to its value before the CALL.  It fails for the CALL made  *)
(* with 15 slots in use, which the code does not carry out (see C1).       *)
(***************************************************************************)
C2_CallThenRetReturns ==
    (/\ JustExecuted /\ LastIns = opcode00EE
     /\ hist.called # << >>
     /\ hist.pre.SP = hist.called[Len(hist.called)].depth) =>
        /\ c.PC = hist.called[Len(hist.called)].ret
        /\ c.SP = hist.called[Len(hist.called)].before

(***************************************************************************)
(* C3.  In every reachable state SP is the number of CALLs carried out     *)
(* minus the number of RETs carried out, 0 <= SP <= 16, and slots          *)
(* 0 .. SP-1 hold the return addresses pushed and not yet popped, in push  *)
(* order.                                                                  *)
(***************************************************************************)
C3_StackInvariant ==
    /\ c.SP = Len(pushed)
    /\ 0 <= c.SP /\ c.SP <= StackSize
    /\ \A k \in 0 .. c.SP - 1 : c.Stack[k] = pushed[k + 1]

\* A CALL on the stack the code takes for full has just been ignored, below
\* it the fifteen addresses pushed before.
C3_Witness ==
    /\ JustExecuted /\ LastIns = opcode2NNN
    /\ hist.pre.SP = 15 /\ c.SP = 15 /\ Len(pushed) = 15
    /\ c.PC = PastWord

(***************************************************************************)
(* C4.  A word of no row of the opcode table changes nothing but PC, which *)
(* advances by 2; the display is not cleared.  The code decodes every      *)
(* such word as opcode00E0 and clears the screen.                          *)
(***************************************************************************)
C4_UnknownWordIsNoOp ==
    (JustExecuted /\ ~InTable(hist.opcode)) =>
        c = [hist.pre EXCEPT !.PC = PastWord]

(***************************************************************************)
(* C5.  After ADD Vx,Vy (8XY4) with a = Vx, b = Vy before it: VF = 1 if    *)
(* a + b > 255, else 0, for every x; and Vx = (a + b) mod 256 for x # F.   *)
(* The code writes VF first, so x = F and y = F go wrong.                  *)
(***************************************************************************)
C5_AddCarry ==
    (JustExecuted /\ LastIns = opcode8XY4) =>
        LET a == hist.pre.Vx[LastX]
            b == hist.pre.Vx[LastY]
        IN /\ c.Vx[VF] = IF a + b > 255 THEN 1 ELSE 0
           /\ LastX # VF => c.Vx[LastX] = (a + b) % 256

(***************************************************************************)
(* C6.  For x # F, with a = Vx, b = Vy before the instruction: SUB (8XY5)  *)
(* leaves Vx = (a - b) mod 256 and VF = 0 if b > a, else 1; SUBN (8XY7)    *)
(* leaves Vx = (b - a) mod 256 and VF = 0 if a > b, else 1.  The code      *)
(* writes VF first, so y = F goes wrong.                                   *)
(***************************************************************************)
C6_SubBorrow ==
    (JustExecuted /\ LastIns \in { opcode8XY5, opcode8XY7 } /\ LastX # VF) =>
        LET a == hist.pre.Vx[LastX]
            b == hist.pre.Vx[LastY]
        IN IF LastIns = opcode8XY5
           THEN /\ c.Vx[LastX] = (a - b) % 256
                /\ c.Vx[VF] = IF b > a THEN 0 ELSE 1
           ELSE /\ c.Vx[LastX] = (b - a) % 256
                /\ c.Vx[VF] = IF a > b THEN 0 ELSE 1

(***************************************************************************)
(* C7.  With a = Vx before the instruction: after SHR (8XY6) VF = a mod 2  *)
(* and, for x # F, Vx = a div 2; after SHL (8XYE) VF = a div 128 and, for  *)
(* x # F, Vx = 2a mod 256; Vy (y other than x and F) is unchanged.  The    *)
(* code shifts VF itself when x = F.                                       *)
(***************************************************************************)
C7_ShiftFlag ==
    (JustExecuted /\ LastIns \in { opcode8XY6, opcode8XYE }) =>
        LET a == hist.pre.Vx[LastX] IN
        /\ c.Vx[VF] = IF LastIns = opcode8XY6 THEN a % 2 ELSE a \div 128
        /\ LastX # VF =>
              c.Vx[LastX] = IF LastIns = opcode8XY6 THEN a \div 2 ELSE (2 * a) % 256
        /\ LastY \notin { LastX, VF } => c.Vx[LastY] = hist.pre.Vx[LastY]

(***************************************************************************)
(* C8.  The same DRW executed twice in a row, with I, the sprite bytes and *)
(* the coordinate registers the same for both draws.                       *)
(***************************************************************************)
\* The cycle about to run is the second of two such draws: hist.pre is the
\* machine before the first, c the machine between them.
SecondDraw ==
    /\ hist.valid /\ LastIns = opcodeDXYN
    /\ Executing(hist.opcode)
    /\ c.I = hist.pre.I
    /\ c.Vx[LastX] = hist.pre.Vx[LastX]
    /\ c.Vx[LastY] = hist.pre.Vx[LastY]
    /\ \A r \in 0 .. N(hist.opcode) - 1 :
          Byte(c.MainMemory, c.I + r) = Byte(hist.pre.MainMemory, c.I + r)

\* C8 as claimed: the second draw restores the display and leaves VF = 1.
C8_DrawTwiceSetsVF ==
    [][ SecondDraw =>
          /\ c'.ScreenState = hist.pre.ScreenState
          /\ c'.Vx[VF] = 1 ]_vars

\* C8 as amended: the second draw restores the display, and leaves VF = 1
\* exactly if one of the cells the sprite toggles was off before the first
\* draw (VF = 0 if the sprite toggles no cell, or only cells that were on).
C8_DrawTwiceRestores ==
    [][ SecondDraw =>
          /\ c'.ScreenState = hist.pre.ScreenState
          /\ c'.Vx[VF] =
                IF \E cell \in SpriteCells(hist.pre, hist.opcode) :
                      Pixel(hist.pre.ScreenState, cell[1], cell[2]) = 0
                THEN 1 ELSE 0 ]_vars

\* Two equal draws in a row are done, on a display that was not blank; the
\* sprite toggled cells, and the second draw left VF = 0.
C8_Witness ==
    /\ JustExecuted /\ LastIns = opcodeDXYN
    /\ hist.prevOpcode = hist.opcode
    /\ c.Vx[LastX] = hist.pre.Vx[LastX]
    /\ c.Vx[LastY] = hist.pre.Vx[LastY]
    /\ SpriteCells(c, hist.opcode) # {}
    /\ c.Vx[VF] = 0
    /\ \E y \in 0 .. ScreenHeight - 1 : \E x \in 0 .. ScreenWidth - 1 :
          Pixel(c.ScreenState, y, x) = 1

(***************************************************************************)
(* C9.  LD Vx,K (FX0A) at address A: with no key flagged newly released    *)
(* the cycle leaves PC = A and the machine as it was, so the same word is  *)
(* fetched again; with a key flagged, Vx becomes the code of a flagged key *)
(* and the cycle leaves PC = A + 2.                                        *)
(***************************************************************************)
C9_KeyWait ==
    (JustExecuted /\ LastIns = opcodeFX0A) =>
        IF \A k \in 0 .. NumKeypad - 1 : ~hist.pre.KeyJustReleased[k]
        THEN c = hist.pre
        ELSE /\ c.PC = PastWord
             /\ c.Vx[LastX] \in 0 .. NumKeypad - 1
             /\ hist.pre.KeyJustReleased[c.Vx[LastX]]
             /\ c = [hist.pre EXCEPT !.PC = PastWord, !.Vx[LastX] = c.Vx[LastX]]

\* The wait has ended with two keys flagged: Vx holds the code of one.
C9_Witness ==
    /\ JustExecuted /\ LastIns = opcodeFX0A
    /\ hist.pre.KeyJustReleased[\h2] /\ hist.pre.KeyJustReleased[\hF]
    /\ c.PC = PastWord
    /\ c.Vx[LastX] = \hF
    /\ hist.prevOpcode = hist.opcode

(***************************************************************************)
(* C10.  Each tick decrements each timer by 1 if it is above 0 and leaves  *)
(* it at 0 otherwise, once per tick: DecrementTimers runs when the CPU     *)
(* cycles of the tick are done and only then, and apart from it a timer    *)
(* changes only by LD DT,Vx and LD ST,Vx.  No timer wraps from 0 to 255.   *)
(***************************************************************************)
C10_TimersOncePerTick ==
    [][ /\ at = "timers" =>
              /\ c'.DT = IF c.DT > 0 THEN c.DT - 1 ELSE 0
              /\ c'.ST = IF c.ST > 0 THEN c.ST - 1 ELSE 0
              /\ at' = "draw"
        /\ at' = "timers" => at = "cpu" /\ cycle' = CyclesToExecute
        /\ (at = "cpu" /\ at' \notin { "cpu", "exited" }) => at' = "timers"
        /\ (at # "timers" /\ c'.DT # c.DT) =>
              /\ at = "cpu" /\ ~IsPanic(fetch(c))
              /\ decode(fetch(c).opcode) = opcodeFX15
              /\ c'.DT = c.Vx[X(fetch(c).opcode)]
        /\ (at # "timers" /\ c'.ST # c.ST) =>
              /\ at = "cpu" /\ ~IsPanic(fetch(c))
              /\ decode(fetch(c).opcode) = opcodeFX18
              /\ c'.ST = c.Vx[X(fetch(c).opcode)]
      ]_vars

\* The delay timer, set to 2, was read as 0 in this tick and is still 0 after
\* the tick's decrement.
C10_Witness ==
    /\ at = "draw"
    /\ c.Vx[0] = 2 /\ c.Vx[1] = 1 /\ c.Vx[2] = 0
    /\ hist.valid /\ hist.pre.DT = 0
    /\ c.DT = 0 /\ c.ST = 0

(***************************************************************************)
(* C11.  LD [I],Vx (FX55) writes V0 .. Vx to the cells I .. I+x and        *)
(* nothing else; LD Vx,[I] (FX65) writes the cells I .. I+x to V0 .. Vx    *)
(* and nothing else; both leave I as it was; and FX65 executed right after *)
(* FX55 with the same x and the same I leaves V0 .. Vx as they were before *)
(* the dump.                                                               *)
(***************************************************************************)
\* The cycle about to run executes instruction ins and will complete.
About(ins) ==
    /\ at = "cpu" /\ ~IsPanic(fetch(c))
    /\ decode(fetch(c).opcode) = ins

C11_DumpLoadRoundTrip ==
    [][ LET w == fetch(c).opcode
            x == X(w)
            past == U16(c.PC + 2)
        IN /\ (About(opcodeFX55) /\ at' # "exited") =>
                /\ [c' EXCEPT !.MainMemory = c.MainMemory] = [c EXCEPT !.PC = past]
                /\ \A a \in 0 .. MemSize - 1 :
                      Byte(c'.MainMemory, a) =
                         IF c.I <= a /\ a <= c.I + x THEN c.Vx[a - c.I]
                         ELSE Byte(c.MainMemory, a)
           /\ (About(opcodeFX65) /\ at' # "exited") =>
                /\ [c' EXCEPT !.Vx = c.Vx] = [c EXCEPT !.PC = past]
                /\ \A k \in 0 .. NumRegs - 1 :
                      c'.Vx[k] = IF k <= x THEN Byte(c.MainMemory, c.I + k)
                                 ELSE c.Vx[k]
           /\ (/\ About(opcodeFX65) /\ at' # "exited"
               /\ hist.valid /\ LastIns = opcodeFX55 /\ LastX = x
               /\ c.I = hist.pre.I) =>
                \A k \in 0 .. x : c'.Vx[k] = hist.pre.Vx[k] ]_vars

\* All sixteen registers were dumped and loaded back: a random V0 and VF = 15
\* are as they were before the dump.
C11_Witness ==
    /\ JustExecuted /\ LastIns = opcodeFX65 /\ LastX = \hF
    /\ hist.prevOpcode = FX(\hF, \h55)
    /\ c.Vx[0] = 255 /\ c.Vx[1] = \h21 /\ c.Vx[VF] = \h0F
    /\ c.I = \h300 /\ Byte(c.MainMemory, \h30F) = \h0F

(***************************************************************************)
(* C12.  LD I,F(Vx) (FX29) sets I to the font address of the glyph of the  *)
(* low nibble of the value held in Vx: I = 5 * (Vx mod 16).  The code      *)
(* takes the glyph from the register index x of the word.                  *)
(***************************************************************************)
C12_FontAddrOfValue ==
    (JustExecuted /\ LastIns = opcodeFX29) =>
        c.I = 5 * (hist.pre.Vx[LastX] % 16)

(***************************************************************************)
(* C13.  ADD I,Vx (FX1E) with i = I and v = Vx before it adds v into I     *)
(* (compared here as 12-bit addresses) and leaves VF = 1 if i + v > 0xFFF, *)
(* else 0, for every x.  The code writes VF first, so with x = F it adds   *)
(* the flag instead of v.                                                  *)
(***************************************************************************)
C13_AddToI ==
    (JustExecuted /\ LastIns = opcodeFX1E) =>
        LET i == hist.pre.I
            v == hist.pre.Vx[LastX]
        IN /\ c.I % 4096 = (i + v) % 4096
           /\ c.Vx[VF] = IF i + v > \hFFF THEN 1 ELSE 0

(***************************************************************************)
(* C14.  An image that fits the address space from 0x200 upward (at most   *)
(* 0x1000 - 0x200 bytes) is copied as it is to 0x200 and PC is set to      *)
(* 0x200; loading a longer image fails fatally.  The code converts the     *)
(* length to uint16: an image of 65538 bytes is loaded as its first two    *)
(* bytes.                                                                  *)
(***************************************************************************)
C14_LoadFitsOrFails ==
    [][ at = "load" =>
          IF Len(romFile) <= \h1000 - RamGameStart
          THEN /\ ~panicked' /\ at' = "loop"
               /\ c'.PC = RamGameStart
               /\ \A k \in 1 .. Len(romFile) :
                     Byte(c'.MainMemory, RamGameStart + k - 1) = romFile[k]
               /\ \A a \in 0 .. RamGameStart - 1 :
                     Byte(c'.MainMemory, a) = Byte(c.MainMemory, a)
          ELSE panicked' /\ at' = "exited" ]_vars

(***************************************************************************)
(* C15.  Memory has a cell for every address 0x000 .. 0xFFF: a fetch and   *)
(* an instruction whose memory accesses all lie within 0x000 .. 0xFFF do   *)
(* not fail on an index out of range.  MainMemory has 0xFFF cells, so the  *)
(* code fails on every access to the address 0xFFF.                        *)
(***************************************************************************)
\* The image could not be loaded.
LoadFails == IsPanic(LoadRomFile(LoadDefaultSprites(NewChip8), romFile))

\* A CPU cycle has panicked: c is the machine that cycle started from.
CrashedInCycle == panicked /\ ~LoadFails

\* The memory addresses the cycle starting from machine m accesses.
Touched(m) ==
    LET f == fetch(m)
        pcs == { m.PC, U16(m.PC + 1) }
    IN IF IsPanic(f) THEN pcs
       ELSE LET ins == decode(f.opcode)
                x == X(f.opcode)
            IN pcs \cup
               CASE ins = opcodeDXYN -> { U16(m.I + j) : j \in 0 .. N(f.opcode) - 1 }
                 [] ins = opcodeFX33 -> { m.I, U16(m.I + 1), U16(m.I + 2) }
                 [] ins \in { opcodeFX55, opcodeFX65 } -> { U16(m.I + k) : k \in 0 .. x }
                 [] OTHER -> {}

C15_EveryAddressHasACell ==
    (CrashedInCycle /\ \A a \in Touched(c) : a <= \hFFF) =>
        /\ ~IsPanic(fetch(c))
        /\ decode(fetch(c).opcode) \in { opcodeEX9E, opcodeEXA1 }

(***************************************************************************)
(* C16.  In every tick: the CPU cycles of the tick, all of them, then the  *)
(* timer decrement, then the render request, then the input refresh.  The  *)
(* key vectors are all false at the start and change in the input refresh  *)
(* only, so SKP, SKNP and LD Vx,K of tick k read what the refresh of tick  *)
(* k-1 wrote; during the cycles of a tick the delay timer changes by       *)
(* LD DT,Vx only, so LD Vx,DT reads a timer not yet decremented for the    *)
(* tick.                                                                   *)
(***************************************************************************)
C16_TickOrder ==
    /\ c.KeyPressed = emptyBoolSlice /\ c.KeyJustReleased = emptyBoolSlice
    /\ [][ LET w == fetch(c).opcode
               key == c.Vx[X(w)]
               done == at' # "exited"
           IN /\ at = "loop" => (at' \in { "cpu", "exited" } /\ (at' = "cpu" => cycle' = 0))
              /\ at = "cpu" =>
                    /\ at' \in { "cpu", "timers", "exited" }
                    /\ done => cycle' = cycle + 1
                    /\ at' = "cpu" => cycle' < CyclesToExecute
                    /\ at' = "timers" => cycle' = CyclesToExecute
              /\ at = "timers" => at' = "draw"
              /\ at = "draw" => (at' = "input" /\ c' = c)
              /\ at = "input" => at' = "wait"
              /\ at = "wait" => (at' = "loop" /\ c' = c)
              /\ (c'.KeyPressed # c.KeyPressed
                     \/ c'.KeyJustReleased # c.KeyJustReleased) => at = "input"
              /\ (at = "cpu" /\ c'.DT # c.DT) => About(opcodeFX15)
              /\ (About(opcodeFX07) /\ done) => c'.Vx[X(w)] = c.DT
              /\ (About(opcodeEX9E) /\ done) =>
                    c'.PC = U16(c.PC + (IF c.KeyPressed[key] THEN 4 ELSE 2))
              /\ (About(opcodeEXA1) /\ done) =>
                    c'.PC = U16(c.PC + (IF c.KeyPressed[key] THEN 2 ELSE 4))
              /\ (About(opcodeFX0A) /\ done) =>
                    c'.PC = U16(c.PC + (IF c.KeyJustReleased = emptyBoolSlice
                                        THEN 0 ELSE 2))
         ]_vars

\* In the second tick SKP has found key F held, as the refresh of the first
\* tick left it, and LD Vx,DT has read 2: the timer set to 3, decremented once.
C16_Witness ==
    /\ JustExecuted /\ LastIns = opcodeFX07
    /\ cycle = 3
    /\ hist.prevOpcode = SKP(0)
    /\ c.KeyPressed[\hF]
    /\ c.Vx[1] = 2 /\ c.DT = 2

(***************************************************************************)
(* C17.  A word is decoded as SE Vx,Vy only if it is 5XY0, as SNE Vx,Vy    *)
(* only if it is 9XY0, as SKP only if it is EX9E, as SKNP only if it is    *)
(* EXA1.  The code does not look at the low nibble of 5XY_ and 9XY_ and    *)
(* looks at the low nibble only of EX__.                                   *)
(***************************************************************************)
C17_DecoderStrict ==
    JustExecuted =>
        LET w == hist.opcode
            top == w \div 4096
        IN /\ LastIns = opcode5XY0 => (top = 5 /\ w % 16 = 0)
           /\ LastIns = opcode9XY0 => (top = 9 /\ w % 16 = 0)
           /\ LastIns = opcodeEX9E => (top = \hE /\ w % 256 = \h9E)
           /\ LastIns = opcodeEXA1 => (top = \hE /\ w % 256 = \hA1)

(***************************************************************************)
(* C18.  DRW Vx,Vy,n with origin (ox, oy) = (Vx mod 64, Vy mod 32) toggles *)
(* the cell (ox+k, oy+r) iff bit k (most significant first) of sprite byte *)
(* r is set and ox+k <= 63 and oy+r <= 31; bits off the grid toggle        *)
(* nothing, every other cell is unchanged; VF = 1 afterwards iff a toggled *)
(* cell was on before the draw, else 0.                                    *)
(***************************************************************************)
C18_DrawClips ==
    (JustExecuted /\ LastIns = opcodeDXYN) =>
        LET cells == SpriteCells(hist.pre, hist.opcode)
            before == hist.pre.ScreenState
        IN /\ \A y \in 0 .. ScreenHeight - 1 : \A x \in 0 .. ScreenWidth - 1 :
                 Pixel(c.ScreenState, y, x) =
                    IF <<y, x>> \in cells THEN 1 - Pixel(before, y, x)
                    ELSE Pixel(before, y, x)
           /\ c.ScreenState \subseteq (0 .. ScreenHeight - 1) \X (0 .. ScreenWidth - 1)
           /\ c.Vx[VF] = IF \E cell \in cells : Pixel(before, cell[1], cell[2]) = 1
                         THEN 1 ELSE 0

\* Glyph 0 drawn at (63, 30) over the part of itself drawn at (62, 30): of
\* its 5 rows and 8 columns only column 63 of rows 30 and 31 is on the grid;
\* the cell (63, 30) was on and is off now, VF = 1.
C18_Witness ==
    /\ JustExecuted /\ LastIns = opcodeDXYN
    /\ hist.pre.Vx[LastX] = 63 /\ hist.pre.Vx[LastY] = 30 /\ N(hist.opcode) = 5
    /\ hist.pre.ScreenState = { <<30, 62>>, <<30, 63>>, <<31, 62>> }
    /\ c.ScreenState = { <<30, 62>>, <<31, 62>>, <<31, 63>> }
    /\ c.Vx[VF] = 1

(***************************************************************************)
(* C19.  In every reachable state PC and I are within 0x000 .. 0xFFF.      *)
(* The code masks neither the sum of ADD I,Vx nor the target of            *)
(* JP V0,addr.                                                             *)
(***************************************************************************)
C19_AddressesIn12Bits ==
    /\ 0 <= c.PC /\ c.PC <= \hFFF
    /\ 0 <= c.I /\ c.I <= \hFFF

(***************************************************************************)
(* C20.  SKP (EX9E) and SKNP (EXA1) complete for every value of Vx: no     *)
(* cycle executing one of them panics, and the cycle changes nothing but   *)
(* PC, which advances by 2 or by 4.  The code indexes KeyPressed with Vx   *)
(* as it is and panics when Vx > 15.                                       *)
(***************************************************************************)
\* The word w is a SKP or a SKNP.
IsKeySkip(w) == w \div 4096 = \hE /\ w % 256 \in { \h9E, \hA1 }

C20_KeySkipCompletes ==
    /\ (CrashedInCycle /\ ~IsPanic(fetch(c))) => ~IsKeySkip(fetch(c).opcode)
    /\ (JustExecuted /\ IsKeySkip(hist.opcode)) =>
          \/ c = [hist.pre EXCEPT !.PC = PastWord]
          \/ c = [hist.pre EXCEPT !.PC = U16(PastWord + 2)]

=============================================================================
